---- MODULE Spec2Model ----
(***************************************************************************)
(* Model of the leptos_color widget core:                                  *)
(*   - src/hooks/use_position.rs : the pointer/touch position tracker      *)
(*   - src/components/color_picker.rs : the CSS-variable projections of    *)
(*     the source Color and the handlers of the sliders and fields         *)
(*   - src/components/color_input.rs : the text input and the popover      *)
(*   - src/mount_style.rs : the style elements, in the browser and on the  *)
(*     server                                                              *)
(***************************************************************************)
EXTENDS Integers, Sequences, FiniteSets, TLC

(***************************************************************************)
(* Bounds                                                                  *)
(***************************************************************************)
\* client coordinates of events range over 0..MaxCoord; the far point
\* (100, 50) of the scenario comes on top
MaxCoord == 1
\* width and height of the surface rectangle range over 0..MaxDim; the large
\* rectangle of the scenario comes on top
MaxDim == 1
\* on_move calls are counted up to MaxCalls; events stop being delivered then
MaxCalls == 2
\* each Color channel takes the values 255 * i / Levels
Levels == 2

(***************************************************************************)
(* f64 values.  A value is [n, d]: d > 0 is the rational n/d in lowest     *)
(* terms; d = 0 encodes the IEEE specials: n = 1 is +inf, n = -1 is -inf,  *)
(* n = 0 is NaN.                                                           *)
(***************************************************************************)
Abs(i) == IF i < 0 THEN 0 - i ELSE i

Sign(i) == IF i > 0 THEN 1 ELSE IF i < 0 THEN 0 - 1 ELSE 0

RECURSIVE Gcd(_, _)
Gcd(a, b) == IF b = 0 THEN a ELSE Gcd(b, a % b)

F64(n, d) == LET g == Gcd(Abs(n), d) IN [n |-> n \div g, d |-> d \div g]

NaN == [n |-> 0, d |-> 0]
Zero == [n |-> 0, d |-> 1]
One == [n |-> 1, d |-> 1]

IsNaN(v) == v.d = 0 /\ v.n = 0

\* a < b on f64 values; false when either is NaN
FLess(a, b) ==
    IF IsNaN(a) \/ IsNaN(b) THEN FALSE
    ELSE IF a.d = 0 THEN a.n < 0 /\ ~(b.d = 0 /\ b.n < 0)
    ELSE IF b.d = 0 THEN b.n > 0
    ELSE a.n * b.d < b.n * a.d

\* a / b on f64 for integral a and b >= 0 (x / 0 is +-inf, 0 / 0 is NaN)
FDiv(a, b) == IF b = 0 THEN [n |-> Sign(a), d |-> 0] ELSE F64(a, b)

\* f64::min and f64::max: when one operand is NaN the other is returned
FMin(a, b) == IF IsNaN(a) THEN b ELSE IF IsNaN(b) THEN a ELSE IF FLess(b, a) THEN b ELSE a

FMax(a, b) == IF IsNaN(a) THEN b ELSE IF IsNaN(b) THEN a ELSE IF FLess(a, b) THEN b ELSE a

(***************************************************************************)
(* Inputs of the position tracker                                          *)
(***************************************************************************)
Coords == 0..MaxCoord

\* the pointer position of the documented scenario
ScenarioPoint == <<100, 50>>

\* get_position computes the two axes independently of each other, so every
\* x is paired with one y only
Points == {<<x, MaxCoord - x>> : x \in Coords} \cup {ScenarioPoint}

\* the surface rectangle of the documented scenario
ScenarioRect == [left |-> 0, top |-> 0, width |-> 200, height |-> 100]

\* the surface starts at the origin of the viewport or one pixel off it
Offsets == {0, 1}

\* results of get_bounding_client_rect(); width and height are never negative
Rects ==
    {[left |-> o, top |-> o, width |-> w, height |-> MaxDim - w] :
        o \in Offsets, w \in 0..MaxDim} \cup {ScenarioRect}

NoTouch == <<>>

\* an event is a MouseEvent with client coordinates, a TouchEvent whose
\* touches list is empty or starts with a touch at client coordinates, or a
\* UiEvent of another class
MouseEvents == {[class |-> "MouseEvent", pt |-> p] : p \in Points}

TouchEvents == {[class |-> "TouchEvent", pt |-> p] : p \in Points \cup {NoTouch}}

OtherEvents == {[class |-> "UiEvent", pt |-> NoTouch]}

StartEvents == MouseEvents \cup TouchEvents \cup OtherEvents

None == [some |-> FALSE]

Some(x, y) == [some |-> TRUE, x |-> x, y |-> y]

EventTypes == {"mousemove", "mouseup", "touchmove", "touchend"}

NoListeners == [t \in EventTypes |-> 0]

VARIABLES
    mounted,     \* the widget owning the use_position instance is mounted
    ref_div,     \* TRUE when the NodeRef holds the surface element
    dragging,    \* the dragging signal
    listeners,   \* number of document listeners of this instance, per event type
    calls,       \* number of on_move calls made so far
    last_pos,    \* argument of the latest on_move call
    recent,      \* the two latest DOM events delivered, oldest first
    last_in      \* inputs of the latest start or move event: the event, the rectangle,
                 \* the calls counter before it and whether the surface was bound

posVars == <<mounted, ref_div, dragging, listeners, calls, last_pos, recent, last_in>>

VARIABLES
    color,         \* the source Color signal of ColorPicker
    effect_dirty,  \* the Effect of ColorPicker is scheduled and has not run yet
    css            \* the CSS variables --lpc-* written by the Effect

pickVars == <<color, effect_dirty, css>>

VARIABLES
    out,        \* the arguments of the on_change calls made by the latest handler
    panicked,   \* a handler has panicked
    last_edit   \* the latest edit handled: the field, the position or the text

editVars == <<out, panicked, last_edit>>

VARIABLES
    open,            \* the open signal of ColorInput
    click_outside,   \* the window click listener of ColorInput is installed
    reference_ref,   \* TRUE when the NodeRef holds the trigger input
    floating_ref,    \* TRUE when the NodeRef holds the popover
    last_click       \* the latest click or teardown of ColorInput and open before it

popVars == <<open, click_outside, reference_ref, floating_ref, last_click>>

VARIABLES
    trackers,   \* the use_position instances of ColorPicker: ref_div, dragging and
                \* the document listeners of each
    moved,      \* the instances whose on_move the latest event has called
    multi_ev    \* the type of the latest event of the three instances

multiVars == <<trackers, moved, multi_ev>>

VARIABLES
    head,        \* the style elements of document.head, first child first
    last_mount   \* the latest mount_style call and the head before it

headVars == <<head, last_mount>>

VARIABLES
    styles,     \* the HashMap of SSRMountStyleContext
    html,       \* the String returned by the latest to_html
    last_ssr    \* the latest call on the context, the map and html_len() before it

ssrVars == <<styles, html, last_ssr>>

VARIABLES
    hex_value,     \* the text in the hex field of ColorPicker
    hex_focus,     \* the hex field has the focus
    hex_base,      \* the text when the field got the focus or last fired change
    hex_changes,   \* number of change events the hex field has fired
    hex_emits      \* number of on_change calls made by the handlers of the hex field

hexVars == <<hex_value, hex_focus, hex_base, hex_changes, hex_emits>>

\* the variables of the later sections
lateVars == <<multiVars, headVars, ssrVars, hexVars>>

vars == <<posVars, pickVars, editVars, popVars, lateVars>>

(***************************************************************************)
(* use_position                                                            *)
(***************************************************************************)
\* limit without the lower bound
limit_no_floor(value) == FMin(value, One)

\* let limit = |value: f64| value.min(1.0).max(0.0)
limit(value) == FMax(FMin(value, One), Zero)

\* get_position dividing the vertical offset by the width
get_position_by_width(bound, e, rect) ==
    IF ~bound THEN None
    ELSE IF e.class = "MouseEvent" \/ (e.class = "TouchEvent" /\ e.pt # NoTouch)
    THEN Some(limit(FDiv(e.pt[1] - rect.left, rect.width)),
              limit(FDiv(e.pt[2] - rect.top, rect.width)))
    ELSE None

\* get_position: None when the surface is not bound, when the event is a
\* touch event without a touch point, or when it is neither mouse nor touch
get_position(bound, e, rect) ==
    IF ~bound THEN None
    ELSE IF e.class = "MouseEvent" \/ (e.class = "TouchEvent" /\ e.pt # NoTouch)
    THEN Some(limit(FDiv(e.pt[1] - rect.left, rect.width)),
              limit(FDiv(e.pt[2] - rect.top, rect.height)))
    ELSE None

\* an effect body that installs the listeners whatever the signal holds
effect_listeners_always(is_dragging) == [t \in EventTypes |-> 1]

\* the body of create_effect, run after the cleanup of its previous run has
\* removed the listeners that run installed
effect_listeners(is_dragging) ==
    IF is_dragging THEN [t \in EventTypes |-> 1] ELSE NoListeners

\* an effect re-run that leaves the listeners of the previous run installed
run_effect_no_cleanup(old, is_dragging) ==
    [t \in EventTypes |-> old[t] + effect_listeners(is_dragging)[t]]

\* a write to the dragging signal re-runs the effect: the listeners of the
\* previous run (old) are cleaned up, then the body runs
run_effect(old, is_dragging) == effect_listeners(is_dragging)

Push(t) == <<recent[2], t>>

\* on_move.call(pos), n times
Emit(pos, n) ==
    IF pos.some /\ n > 0
    THEN calls' = calls + n /\ last_pos' = pos
    ELSE UNCHANGED <<calls, last_pos>>

\* handle_start that only marks the session active
handle_start_silent(e, rect) ==
    /\ mounted
    /\ calls < MaxCalls
    /\ dragging' = TRUE
    /\ listeners' = run_effect(listeners, TRUE)
    /\ recent' = Push("start")
    /\ last_in' = [e |-> e, rect |-> rect, calls |-> calls, bound |-> ref_div]
    /\ UNCHANGED <<mounted, ref_div, calls, last_pos>>

\* handle_start, attached to mousedown and touchstart of an element
handle_start(e, rect) ==
    /\ mounted
    /\ calls < MaxCalls
    /\ dragging' = TRUE
    /\ listeners' = run_effect(listeners, TRUE)
    /\ Emit(get_position(ref_div, e, rect), 1)
    /\ recent' = Push("start")
    /\ last_in' = [e |-> e, rect |-> rect, calls |-> calls, bound |-> ref_div]
    /\ UNCHANGED <<mounted, ref_div>>

\* a mousemove or touchmove on the document: every installed listener of
\* that type runs handle_move
handle_move(t, e, rect) ==
    /\ calls < MaxCalls
    /\ Emit(get_position(ref_div, e, rect), listeners[t])
    /\ recent' = Push(t)
    /\ last_in' = [e |-> e, rect |-> rect, calls |-> calls, bound |-> ref_div]
    /\ UNCHANGED <<mounted, ref_div, dragging, listeners>>

DocMouseMove(e, rect) == handle_move("mousemove", e, rect)

DocTouchMove(e, rect) == handle_move("touchmove", e, rect)

\* handle_end on end listeners that are installed once for good and flip the
\* signal
handle_end_toggle(t) ==
    /\ dragging' = ~dragging
    /\ listeners' = run_effect(listeners, ~dragging)
    /\ recent' = Push(t)
    /\ UNCHANGED <<mounted, ref_div, calls, last_pos, last_in>>

\* handle_end whose write does not re-run the effect
handle_end_untracked(t) ==
    /\ IF listeners[t] > 0
       THEN dragging' = FALSE /\ UNCHANGED listeners
       ELSE UNCHANGED <<dragging, listeners>>
    /\ recent' = Push(t)
    /\ UNCHANGED <<mounted, ref_div, calls, last_pos, last_in>>

\* a mouseup or touchend on the document: every installed listener of that
\* type runs handle_end
handle_end(t) ==
    /\ IF listeners[t] > 0
       THEN /\ dragging' = FALSE
            /\ listeners' = run_effect(listeners, FALSE)
       ELSE UNCHANGED <<dragging, listeners>>
    /\ recent' = Push(t)
    /\ UNCHANGED <<mounted, ref_div, calls, last_pos, last_in>>

DocMouseUp == handle_end("mouseup")

DocTouchEnd == handle_end("touchend")

\* the view is mounted and the NodeRef receives the surface element
Bind ==
    /\ mounted
    /\ ~ref_div
    /\ ref_div' = TRUE
    /\ UNCHANGED <<mounted, dragging, listeners, calls, last_pos, recent, last_in>>

\* a disposal that leaves the document listeners installed
Unmount_leak ==
    /\ mounted
    /\ mounted' = FALSE
    /\ ref_div' = ref_div
    /\ dragging' = FALSE
    /\ listeners' = listeners
    /\ recent' = Push(IF dragging THEN "unmount-mid-drag" ELSE "unmount")
    /\ UNCHANGED <<calls, last_pos, last_in>>

\* the owner of the hook is disposed: the signal, the node ref and the
\* effect go away, and the effect's cleanups remove its listeners
Unmount ==
    /\ mounted
    /\ mounted' = FALSE
    /\ ref_div' = FALSE
    /\ dragging' = FALSE
    /\ listeners' = NoListeners
    /\ recent' = Push(IF dragging THEN "unmount-mid-drag" ELSE "unmount")
    /\ UNCHANGED <<calls, last_pos, last_in>>

InitPos ==
    /\ mounted = TRUE
    /\ ref_div = FALSE
    /\ dragging = FALSE
    /\ listeners = NoListeners
    /\ calls = 0
    /\ last_pos = None
    /\ recent = <<"none", "none">>
    /\ last_in = [e |-> [class |-> "UiEvent", pt |-> NoTouch], rect |-> ScenarioRect,
                  calls |-> 0, bound |-> FALSE]

(***************************************************************************)
(* ColorPicker: the projections of the source Color                        *)
(***************************************************************************)
\* Color channels are f32 in [0, 1]; the model takes them in 255ths
Chan == {(255 * i) \div Levels : i \in 0..Levels}

AlphaVals == {(255 * i) \div Levels : i \in 1..Levels}

Colors == [r : Chan, g : Chan, b : Chan, a : AlphaVals]

Max3(x, y, z) == IF x >= y /\ x >= z THEN x ELSE IF y >= z THEN y ELSE z

Min3(x, y, z) == IF x <= y /\ x <= z THEN x ELSE IF y <= z THEN y ELSE z

\* f32::round of a / b for a >= 0, b > 0 (halves round away from zero)
RoundDiv(a, b) == (2 * a + b) \div (2 * b)

\* Color::to_rgba8
to_rgba8(c) == <<c.r, c.g, c.b, c.a>>

\* hue of Color::to_hsla / to_hsva in degrees, as the fraction num / den
hue_deg(c) ==
    LET mx == Max3(c.r, c.g, c.b)
        mn == Min3(c.r, c.g, c.b)
        d == mx - mn
        h == IF c.r = mx THEN (c.g - c.b) % (6 * d)
             ELSE IF c.g = mx THEN (c.b - c.r) + 2 * d
             ELSE (c.r - c.g) + 4 * d
    IN IF d = 0 THEN [num |-> 0, den |-> 1] ELSE [num |-> 60 * h, den |-> d]

\* saturation and value of Color::to_hsva, as fractions
hsv_s(c) ==
    LET mx == Max3(c.r, c.g, c.b)
    IN IF mx = 0 THEN [num |-> 0, den |-> 1]
       ELSE [num |-> mx - Min3(c.r, c.g, c.b), den |-> mx]

hsv_v(c) == [num |-> Max3(c.r, c.g, c.b), den |-> 255]

HexDigits == <<"0", "1", "2", "3", "4", "5", "6", "7", "8", "9", "a", "b", "c", "d", "e", "f">>

Hex2(byte) == <<HexDigits[(byte \div 16) + 1], HexDigits[(byte % 16) + 1]>>

\* Color::to_hex_string: "#rrggbb", or "#rrggbbaa" when alpha is below 255
to_hex_string(c) ==
    <<"#">> \o Hex2(c.r) \o Hex2(c.g) \o Hex2(c.b)
        \o (IF c.a < 255 THEN Hex2(c.a) ELSE <<>>)

\* projections whose hue is rounded to the nearest degree
Projections_round_hue(c) ==
    LET hsla0 == hue_deg(c)
        rgba == to_rgba8(c)
        alpha == rgba[4]
    IN [hue |-> RoundDiv(hsla0.num, hsla0.den),
        red |-> rgba[1],
        green |-> rgba[2],
        blue |-> rgba[3],
        hex |-> to_hex_string(c),
        alpha |-> alpha,
        rgba |-> <<rgba[1], rgba[2], rgba[3], F64(alpha, 255)>>,
        hue_pointer |-> RoundDiv(hsla0.num * 100, hsla0.den * 360),
        alpha_pointer |-> RoundDiv(alpha * 100, 255),
        saturation_pointer_top |-> F64(100 * 255 - 100 * hsv_v(c).num, 255),
        saturation_pointer_left |-> RoundDiv(hsv_s(c).num * 100, hsv_s(c).den)]

\* the values the Effect writes for a Color.  Numbers stand for their decimal
\* text; rgba is the tuple of the four numbers that format! prints
Projections(c) ==
    LET hsla0 == hue_deg(c)
        rgba == to_rgba8(c)
        alpha == rgba[4]
    IN [hue |-> hsla0.num \div hsla0.den,
        red |-> rgba[1],
        green |-> rgba[2],
        blue |-> rgba[3],
        hex |-> to_hex_string(c),
        alpha |-> alpha,
        rgba |-> <<rgba[1], rgba[2], rgba[3], F64(alpha, 255)>>,
        hue_pointer |-> RoundDiv(hsla0.num * 100, hsla0.den * 360),
        alpha_pointer |-> RoundDiv(alpha * 100, 255),
        saturation_pointer_top |-> F64(100 * 255 - 100 * hsv_v(c).num, 255),
        saturation_pointer_left |-> RoundDiv(hsv_s(c).num * 100, hsv_s(c).den)]

\* the initial_value of each use_css_var_with_options
InitialCss ==
    [hue |-> 0,
     red |-> 0,
     green |-> 0,
     blue |-> 0,
     hex |-> <<"#", "0", "0", "0", "0", "0", "0">>,
     alpha |-> 1,
     rgba |-> <<0, 0, 0, F64(1, 1)>>,
     hue_pointer |-> 0,
     alpha_pointer |-> 100,
     saturation_pointer_top |-> F64(100, 1),
     saturation_pointer_left |-> 0]

\* the application writes the source Color signal; the Effect is scheduled
SetColor(c) ==
    /\ color' = c
    /\ effect_dirty' = TRUE
    /\ UNCHANGED css

\* an Effect that forgets set_hex
ColorEffect_no_hex ==
    /\ effect_dirty
    /\ css' = [Projections(color) EXCEPT !.hex = css.hex]
    /\ effect_dirty' = FALSE
    /\ UNCHANGED color

\* the Effect of ColorPicker runs to completion: the eleven setters
ColorEffect ==
    /\ effect_dirty
    /\ css' = Projections(color)
    /\ effect_dirty' = FALSE
    /\ UNCHANGED color

InitPicker ==
    /\ color \in Colors
    /\ effect_dirty = TRUE
    /\ css = InitialCss

\* the value of the hex field: prop:value is the hex projection without "#"
RECURSIVE replace_hash(_)
replace_hash(text) ==
    IF text = <<>> THEN <<>>
    ELSE (IF text[1] = "#" THEN <<>> ELSE <<text[1]>>) \o replace_hash(Tail(text))

hex_field_value == replace_hash(css.hex)

(***************************************************************************)
(* ColorPicker: the edits                                                  *)
(***************************************************************************)
\* a Color as it is handed to on_change: the constructor that built it and
\* its four arguments, each an f32 modelled as an exact fraction
ColorVal(space, c1, c2, c3, a) == [space |-> space, c1 |-> c1, c2 |-> c2, c3 |-> c3, a |-> a]

\* a Color of the source signal as Color { r, g, b, a }
Rgba(c) == ColorVal("rgba", F64(c.r, 255), F64(c.g, 255), F64(c.b, 255), F64(c.a, 255))

\* Color::from_rgba8
from_rgba8(r, g, b, a) == ColorVal("rgba", F64(r, 255), F64(g, 255), F64(b, 255), F64(a, 255))

\* what a handler does: nothing, one on_change call, or a panic
NoChange == [kind |-> "none"]

Panic == [kind |-> "panic"]

Change(c) == [kind |-> "emit", color |-> c]

\* hue of to_hsla / to_hsva as an f32
hue_f32(c) == F64(hue_deg(c).num, hue_deg(c).den)

\* saturation and lightness of Color::to_hsla
hsl_l(c) == F64(Max3(c.r, c.g, c.b) + Min3(c.r, c.g, c.b), 2 * 255)

hsl_s(c) ==
    LET mx == Max3(c.r, c.g, c.b)
        mn == Min3(c.r, c.g, c.b)
    IN IF mx = mn THEN Zero
       ELSE IF mx + mn < 255 THEN F64(mx - mn, mx + mn)
       ELSE F64(mx - mn, 2 * 255 - mx - mn)

\* 1.0 - top
OneMinus(v) == F64(v.d - v.n, v.d)

\* the literal 0.001
Floor001 == F64(1, 1000)

\* normalized coordinates delivered by use_position: the two ends, the
\* middle, and one pixel of a surface 2000 pixels wide
Fracs == {Zero, F64(1, 2000), F64(1, 2), One}

Positions == Fracs \X Fracs

\* the Saturation closure without the two floors
saturation_on_change_no_floor(c, left, top) ==
    Change(ColorVal("hsva", hue_f32(c), left, OneMinus(top), F64(c.a, 255)))

\* the on_change closure given to Saturation
saturation_on_change(c, left, top) ==
    LET v0 == OneMinus(top)
        v == IF ~FLess(Zero, v0) THEN Floor001 ELSE v0
        sat == IF ~FLess(Zero, left) THEN Floor001 ELSE left
    IN Change(ColorVal("hsva", hue_f32(c), sat, v, F64(c.a, 255)))

\* the Hue closure reading the vertical coordinate
hue_on_change_by_top(c, left, top) ==
    Change(ColorVal("hsla", F64(top.n * 360, top.d), hsl_s(c), hsl_l(c), F64(c.a, 255)))

\* the on_change closure given to Hue
hue_on_change(c, left, top) ==
    Change(ColorVal("hsla", F64(left.n * 360, left.d), hsl_s(c), hsl_l(c), F64(c.a, 255)))

\* the Alpha closure writing an opaque Color
alpha_on_change_opaque(c, left, top) == Change([Rgba(c) EXCEPT !.a = One])

\* the on_change closure given to Alpha
alpha_on_change(c, left, top) == Change([Rgba(c) EXCEPT !.a = left])

(***************************************************************************)
(* Text of the input fields.  A text is a sequence of one-character        *)
(* strings.                                                                *)
(***************************************************************************)
\* position of a character among the hexadecimal digits, 0 when it is none
RECURSIVE HexIndex(_, _)
HexIndex(ch, i) ==
    IF i > 16 THEN 0 ELSE IF HexDigits[i] = ch THEN i ELSE HexIndex(ch, i + 1)

IsHexDigit(ch) == HexIndex(ch, 1) > 0

IsDecDigit(ch) == HexIndex(ch, 1) \in 1..10

DigitVal(ch) == HexIndex(ch, 1) - 1

\* u8::to_string
RECURSIVE ToDec(_)
ToDec(v) ==
    IF v < 10 THEN <<HexDigits[v + 1]>> ELSE ToDec(v \div 10) \o <<HexDigits[(v % 10) + 1]>>

RECURSIVE DecVal(_)
DecVal(text) ==
    IF text = <<>> THEN 0
    ELSE 10 * DecVal(SubSeq(text, 1, Len(text) - 1)) + DigitVal(text[Len(text)])

Err == [ok |-> FALSE, val |-> 0]

Ok(v) == [ok |-> TRUE, val |-> v]

\* str::parse::<u8>: an optional "+", then digits only, at least one, and a
\* value of at most 255
parse_u8(text) ==
    LET digits == IF text # <<>> /\ text[1] = "+" THEN Tail(text) ELSE text
    IN IF digits = <<>> THEN Err
       ELSE IF \E i \in 1..Len(digits) : ~IsDecDigit(digits[i]) THEN Err
       ELSE IF DecVal(digits) > 255 THEN Err
       ELSE Ok(DecVal(digits))

HexByte(hi, lo) == 16 * DigitVal(hi) + DigitVal(lo)

\* csscolorparser's hexadecimal notation: 3, 4, 6 or 8 digits
parse_hex(t) ==
    IF \E i \in 1..Len(t) : ~IsHexDigit(t[i]) THEN Err
    ELSE IF Len(t) = 3
    THEN Ok(from_rgba8(HexByte(t[1], t[1]), HexByte(t[2], t[2]), HexByte(t[3], t[3]), 255))
    ELSE IF Len(t) = 4
    THEN Ok(from_rgba8(HexByte(t[1], t[1]), HexByte(t[2], t[2]), HexByte(t[3], t[3]),
                       HexByte(t[4], t[4])))
    ELSE IF Len(t) = 6
    THEN Ok(from_rgba8(HexByte(t[1], t[2]), HexByte(t[3], t[4]), HexByte(t[5], t[6]), 255))
    ELSE IF Len(t) = 8
    THEN Ok(from_rgba8(HexByte(t[1], t[2]), HexByte(t[3], t[4]), HexByte(t[5], t[6]),
                       HexByte(t[7], t[8])))
    ELSE Err

\* index of the first occurrence of ch in text at or after i, or
\* Len(text) + 1
RECURSIVE Find(_, _, _)
Find(text, ch, i) ==
    IF i > Len(text) THEN Len(text) + 1
    ELSE IF text[i] = ch THEN i
    ELSE Find(text, ch, i + 1)

RECURSIVE Pow10(_)
Pow10(n) == IF n = 0 THEN 1 ELSE 10 * Pow10(n - 1)

AllDigits(text) == \A i \in 1..Len(text) : IsDecDigit(text[i])

\* str::parse::<f32> on an unsigned decimal number with or without a
\* fraction
parse_f32(text) ==
    LET dot == Find(text, ".", 1)
        int == SubSeq(text, 1, dot - 1)
        frac == SubSeq(text, dot + 1, Len(text))
    IN IF AllDigits(int) /\ AllDigits(frac) /\ Len(int) + Len(frac) > 0
       THEN Ok(F64(DecVal(int) * Pow10(Len(frac)) + DecVal(frac), Pow10(Len(frac))))
       ELSE Err

\* the parameters of a functional notation, text being what stands between
\* the parentheses
RECURSIVE split_params(_)
split_params(text) ==
    LET stop == Find(text, ",", 1)
    IN IF stop > Len(text) THEN <<text>>
       ELSE <<SubSeq(text, 1, stop - 1)>> \o split_params(SubSeq(text, stop + 1, Len(text)))

\* f32::clamp(0.0, 1.0)
clamp01(v) == IF FLess(One, v) THEN One ELSE IF FLess(v, Zero) THEN Zero ELSE v

\* a channel of rgb()/rgba() given as a number: value / 255
parse_percent_or_255(text) ==
    IF parse_f32(text).ok
    THEN Ok(F64(parse_f32(text).val.n, parse_f32(text).val.d * 255))
    ELSE Err

\* the alpha of rgba() given as a number: the value itself
parse_percent_or_float(text) == parse_f32(text)

\* csscolorparser's "rgba(r,g,b,a)": every component is clamped to [0, 1]
parse_rgba(text) ==
    LET params == split_params(SubSeq(text, 6, Len(text) - 1))
    IN IF Len(params) # 4 THEN Err
       ELSE LET r == parse_percent_or_255(params[1])
                g == parse_percent_or_255(params[2])
                b == parse_percent_or_255(params[3])
                a == parse_percent_or_float(params[4])
            IN IF r.ok /\ g.ok /\ b.ok /\ a.ok
               THEN Ok(ColorVal("rgba", clamp01(r.val), clamp01(g.val), clamp01(b.val),
                                clamp01(a.val)))
               ELSE Err

IsRgbaCall(text) ==
    /\ Len(text) >= 6
    /\ SubSeq(text, 1, 5) = <<"r", "g", "b", "a", "(">>
    /\ text[Len(text)] = ")"

\* str::parse::<Color> on the texts of the model: hexadecimal notation with
\* or without the leading "#", and rgba() with four numbers
parse_color(text) ==
    IF text # <<>> /\ text[1] = "#" THEN parse_hex(Tail(text))
    ELSE IF IsRgbaCall(text) THEN parse_rgba(text)
    ELSE parse_hex(text)

\* prop:value of the text input of ColorInput:
\* format!("rgba({},{},{},{})", rgba[0], rgba[1], rgba[2], rgba[3])
input_value(c) ==
    <<"r", "g", "b", "a", "(">> \o ToDec(to_rgba8(c)[1]) \o <<",">> \o ToDec(to_rgba8(c)[2])
        \o <<",">> \o ToDec(to_rgba8(c)[3]) \o <<",">> \o ToDec(to_rgba8(c)[4]) \o <<")">>

\* texts committed in a colour field
ColorTexts ==
    {<<"f", "f", "0", "0", "0", "0">>,
     <<"0", "0", "7", "f", "f", "f">>,
     <<"f", "0", "0">>,
     <<"#", "0", "0", "f", "f", "0", "0">>,
     <<"f", "f", "0", "0", "0", "0", "8", "0">>,
     <<"z", "z", "z", "z", "z", "z">>,
     <<"f", "f", "0", "0", "0">>,
     <<>>}

\* texts committed in a numeric field: the bytes of the model's channels
\* and texts that are no unsigned byte
NumTexts ==
    {ToDec(v) : v \in Chan} \cup
    {<<"+", "7">>, <<"3", "0", "0">>, <<"2", "5", "6">>, <<"-", "1">>, <<"1", "e", "2">>,
     <<"a", "b", "c">>, <<>>}

\* a colour field that hands the current Color to on_change when the text
\* does not parse
color_text_on_change_fallback(c, text) ==
    IF parse_color(text).ok THEN Change(parse_color(text).val) ELSE Change(Rgba(c))

\* on:change and on:blur of the hex field of ColorPicker, and on:change of the
\* text input of ColorInput
color_text_on_change(c, text) ==
    IF parse_color(text).ok THEN Change(parse_color(text).val) ELSE NoChange

\* the numeric field of a channel that sets the next channel
channel_on_change_shifted(c, ch, text, on_err) ==
    IF parse_u8(text).ok
    THEN LET v == F64(parse_u8(text).val, 255)
         IN Change(IF ch = "r" THEN [Rgba(c) EXCEPT !.c2 = v]
                   ELSE IF ch = "g" THEN [Rgba(c) EXCEPT !.c3 = v]
                   ELSE IF ch = "b" THEN [Rgba(c) EXCEPT !.a = v]
                   ELSE [Rgba(c) EXCEPT !.c1 = v])
    ELSE on_err

\* on:change of a numeric field: the channel is set to value / 255
channel_on_change(c, ch, text, on_err) ==
    IF parse_u8(text).ok
    THEN LET v == F64(parse_u8(text).val, 255)
         IN Change(IF ch = "r" THEN [Rgba(c) EXCEPT !.c1 = v]
                   ELSE IF ch = "g" THEN [Rgba(c) EXCEPT !.c2 = v]
                   ELSE IF ch = "b" THEN [Rgba(c) EXCEPT !.c3 = v]
                   ELSE [Rgba(c) EXCEPT !.a = v])
    ELSE on_err

\* the red and green fields run todo!() on a parse error
red_on_change(c, text) == channel_on_change(c, "r", text, Panic)

green_on_change(c, text) == channel_on_change(c, "g", text, Panic)

\* the blue and alpha fields ignore a parse error
blue_on_change(c, text) == channel_on_change(c, "b", text, NoChange)

alpha_input_on_change(c, text) == channel_on_change(c, "a", text, NoChange)

NoPos == <<Zero, Zero>>

\* an event handler of ColorPicker or ColorInput runs with result res
EditStep(field, pos, text, res) ==
    /\ ~panicked
    /\ last_edit' = [field |-> field, pos |-> pos, text |-> text]
    /\ out' = IF res.kind = "emit" THEN <<res.color>> ELSE <<>>
    /\ panicked' = (res.kind = "panic")
    /\ UNCHANGED pickVars

SaturationMove(pos) == EditStep("saturation", pos, <<>>, saturation_on_change(color, pos[1], pos[2]))

HueMove(pos) == EditStep("hue", pos, <<>>, hue_on_change(color, pos[1], pos[2]))

AlphaMove(pos) == EditStep("alpha-slider", pos, <<>>, alpha_on_change(color, pos[1], pos[2]))

HexChange(text) == EditStep("hex", NoPos, text, color_text_on_change(color, text))

HexBlur(text) == EditStep("hex-blur", NoPos, text, color_text_on_change(color, text))

RedChange(text) == EditStep("red", NoPos, text, red_on_change(color, text))

GreenChange(text) == EditStep("green", NoPos, text, green_on_change(color, text))

BlueChange(text) == EditStep("blue", NoPos, text, blue_on_change(color, text))

AlphaChange(text) == EditStep("alpha", NoPos, text, alpha_input_on_change(color, text))

InputChange(text) == EditStep("input", NoPos, text, color_text_on_change(color, text))

\* the text input is committed with the text it displays
InputCommitShown == InputChange(input_value(color))

InitEdit ==
    /\ out = <<>>
    /\ panicked = FALSE
    /\ last_edit = [field |-> "none", pos |-> NoPos, text |-> <<>>]

(***************************************************************************)
(* ColorInput: the popover                                                 *)
(***************************************************************************)
\* what a click on the window can hit: the text input (reference_ref), the
\* popover or one of its descendants (floating_ref), another node of the
\* page, or a target that is no Node
Targets == {"trigger", "popover", "outside", "nonnode"}

\* a click_outside handler for which an empty reference contains every node
click_outside_handler_unmounted_contains(o, target) ==
    IF ~o THEN o
    ELSE IF target = "nonnode" THEN o
    ELSE IF ~(~reference_ref \/ target = "trigger") /\ ~(~floating_ref \/ target = "popover")
    THEN FALSE
    ELSE o

\* a click_outside handler that looks at floating_ref only
click_outside_handler_floating_only(o, target) ==
    IF ~o THEN o
    ELSE IF target = "nonnode" THEN o
    ELSE IF ~(floating_ref /\ target = "popover") THEN FALSE
    ELSE o

\* the closure given to window_event_listener(ev::click, ..): the value of
\* open after it ran with open = o
click_outside_handler(o, target) ==
    IF ~o THEN o
    ELSE IF target = "nonnode" THEN o
    ELSE IF ~(reference_ref /\ target = "trigger") /\ ~(floating_ref /\ target = "popover")
    THEN FALSE
    ELSE o

\* the click reaches the window listener when it is still registered
window_click(o, target) == IF click_outside THEN click_outside_handler(o, target) ELSE o

\* the view is built: both node references are filled
MountView ==
    /\ click_outside
    /\ ~reference_ref
    /\ reference_ref' = TRUE
    /\ floating_ref' = TRUE
    /\ last_click' = [ev |-> "mount", open |-> open]
    /\ UNCHANGED <<open, click_outside>>

\* a click on the text input: on:click toggles open and the window listener
\* sees the same click, in the order in which the two were registered
TriggerClick(toggle_first) ==
    /\ click_outside
    /\ reference_ref
    /\ open' = IF toggle_first THEN window_click(~open, "trigger")
               ELSE ~window_click(open, "trigger")
    /\ last_click' = [ev |-> "trigger", open |-> open]
    /\ UNCHANGED <<click_outside, reference_ref, floating_ref>>

\* a click anywhere else
WindowClick(target) ==
    /\ target # "trigger"
    /\ target = "popover" => floating_ref /\ click_outside
    /\ open' = window_click(open, target)
    /\ last_click' = [ev |-> target, open |-> open]
    /\ UNCHANGED <<click_outside, reference_ref, floating_ref>>

\* on_cleanup
Teardown ==
    /\ click_outside
    /\ open' = FALSE
    /\ click_outside' = FALSE
    /\ last_click' = [ev |-> "teardown", open |-> open]
    /\ UNCHANGED <<reference_ref, floating_ref>>

\* the name under which last_click records a run of the window listener
\* alone
handler_ev(target) ==
    CASE target = "trigger" -> "window:trigger"
      [] target = "popover" -> "window:popover"
      [] target = "outside" -> "window:outside"
      [] OTHER -> "window:nonnode"

\* the closure of the window listener runs for a click with the given target
HandlerRun(target) ==
    /\ click_outside
    /\ open' = click_outside_handler(open, target)
    /\ last_click' = [ev |-> handler_ev(target), open |-> open]
    /\ UNCHANGED <<click_outside, reference_ref, floating_ref>>

\* the inputs of the closure: open and the two references, each empty or
\* filled
InitHandler ==
    /\ open \in BOOLEAN
    /\ click_outside = TRUE
    /\ reference_ref \in BOOLEAN
    /\ floating_ref \in BOOLEAN
    /\ last_click = [ev |-> "none", open |-> open]

InitPop ==
    /\ open = FALSE
    /\ click_outside = TRUE
    /\ reference_ref = FALSE
    /\ floating_ref = FALSE
    /\ last_click = [ev |-> "none", open |-> FALSE]

(***************************************************************************)
(* ColorPicker: the hex field as the browser drives it.  A change event    *)
(* fires when an edited text is committed, by Enter or by the loss of the  *)
(* focus; a blur event fires at every loss of the focus.                   *)
(***************************************************************************)
\* on_change calls of the hex field are counted up to MaxEmits
MaxEmits == 3

\* texts a user types into the field, which takes six characters
TypedTexts ==
    {<<"f", "f", "0", "0", "0", "0">>, <<"f", "0", "0">>, <<"z", "z", "z", "z", "z", "z">>}

\* number of on_change calls of one run of a handler of the hex field
emits_of(text) == IF color_text_on_change(color, text).kind = "emit" THEN 1 ELSE 0

HexFieldFocus ==
    /\ ~hex_focus
    /\ hex_focus' = TRUE
    /\ hex_base' = hex_value
    /\ UNCHANGED <<hex_value, hex_changes, hex_emits>>

\* the user replaces the text of the field
HexFieldType(text) ==
    /\ hex_focus
    /\ text # hex_value
    /\ hex_value' = text
    /\ UNCHANGED <<hex_focus, hex_base, hex_changes, hex_emits>>

\* Enter commits an edited text: the change event runs on:change
HexFieldEnter ==
    /\ hex_focus
    /\ hex_value # hex_base
    /\ hex_emits < MaxEmits
    /\ hex_changes' = hex_changes + 1
    /\ hex_emits' = hex_emits + emits_of(hex_value)
    /\ hex_base' = hex_value
    /\ UNCHANGED <<hex_value, hex_focus>>

\* the field loses the focus: the change event runs on:change when the text
\* was edited, then the blur event runs on:blur
HexFieldBlur ==
    /\ hex_focus
    /\ hex_emits < MaxEmits
    /\ hex_focus' = FALSE
    /\ hex_changes' = hex_changes + (IF hex_value # hex_base THEN 1 ELSE 0)
    /\ hex_emits' = hex_emits + (IF hex_value # hex_base THEN emits_of(hex_value) ELSE 0)
                        + emits_of(hex_value)
    /\ hex_base' = hex_value
    /\ UNCHANGED hex_value

\* the Effect has run and the field shows the hex projection of the Color
InitHexField ==
    /\ color \in Colors
    /\ effect_dirty = FALSE
    /\ css = Projections(color)
    /\ hex_value = hex_field_value
    /\ hex_focus = FALSE
    /\ hex_base = hex_value
    /\ hex_changes = 0
    /\ hex_emits = 0

\* the field of a picker whose handlers are not exercised
InitHex ==
    /\ hex_value = <<"0", "0", "0", "0", "0", "0">>
    /\ hex_focus = FALSE
    /\ hex_base = hex_value
    /\ hex_changes = 0
    /\ hex_emits = 0

(***************************************************************************)
(* ColorPicker: its three use_position instances.  Each call of            *)
(* use_position creates its own dragging signal and its own effect; the    *)
(* document delivers an event to the listeners of every instance.          *)
(***************************************************************************)
Instances == {"saturation", "hue", "alpha"}

Idle == [ref_div |-> FALSE, dragging |-> FALSE, listeners |-> NoListeners]

\* the view of instance i is mounted and its NodeRef receives the surface
MultiBind(i) ==
    /\ ~trackers[i].ref_div
    /\ trackers' = [trackers EXCEPT ![i].ref_div = TRUE]
    /\ moved' = {}
    /\ multi_ev' = "bind"

\* a mousedown or touchstart on the surface of instance i: handle_start of
\* that instance
MultiStart(i, e) ==
    /\ trackers' = [trackers EXCEPT ![i].dragging = TRUE,
                                    ![i].listeners = run_effect(@, TRUE)]
    /\ moved' = IF get_position(trackers[i].ref_div, e, ScenarioRect).some THEN {i} ELSE {}
    /\ multi_ev' = "start"

\* a move event of type t on the document: handle_move of every instance
\* that has a listener of that type
multi_move(t, e) ==
    /\ moved' = {i \in Instances :
                    /\ trackers[i].listeners[t] > 0
                    /\ get_position(trackers[i].ref_div, e, ScenarioRect).some}
    /\ multi_ev' = t
    /\ UNCHANGED trackers

MultiMouseMove(e) == multi_move("mousemove", e)

MultiTouchMove(e) == multi_move("touchmove", e)

\* an end event of type t on the document: handle_end of every instance
\* that has a listener of that type
multi_end(t) ==
    /\ trackers' = [i \in Instances |->
                       IF trackers[i].listeners[t] > 0
                       THEN [trackers[i] EXCEPT !.dragging = FALSE,
                                                !.listeners = run_effect(@, FALSE)]
                       ELSE trackers[i]]
    /\ moved' = {}
    /\ multi_ev' = t

MultiMouseUp == multi_end("mouseup")

MultiTouchEnd == multi_end("touchend")

InitMulti ==
    /\ trackers = [i \in Instances |-> Idle]
    /\ moved = {}
    /\ multi_ev = "none"

(***************************************************************************)
(* mount_style on the client: the style elements of document.head          *)
(***************************************************************************)
\* at most MaxHead style elements are kept in the head
MaxHead == 4

\* the ids of the four callers are identifiers; "a.b" is an id with a
\* character that has a meaning in a selector
StyleIds == {<<"H", "u", "e">>, <<"A", "l", "p", "h", "a">>, <<"a", ".", "b">>}

StyleContents == {"css-1", "css-2"}

\* format!("leptos-color-id-{id}")
format_id(id) == <<"l", "e", "p", "t", "o", "s", "-", "c", "o", "l", "o", "r", "-", "i", "d", "-">> \o id

\* format!("style#{id}")
format_selector(id) == <<"s", "t", "y", "l", "e", "#">> \o id

\* the classes of a compound selector, text being what follows the id
RECURSIVE selector_classes(_)
selector_classes(text) ==
    IF text = <<>> THEN {}
    ELSE LET stop == Find(text, ".", 2)
         IN {SubSeq(text, 2, stop - 1)} \cup selector_classes(SubSeq(text, stop, Len(text)))

\* the compound selector "tag#id.class...": a "." ends the id and starts a
\* class
parse_selector(sel) ==
    LET hash == Find(sel, "#", 1)
        dot == Find(sel, ".", hash + 1)
    IN [tag |-> SubSeq(sel, 1, hash - 1),
        id |-> SubSeq(sel, hash + 1, dot - 1),
        classes |-> selector_classes(SubSeq(sel, dot, Len(sel)))]

\* an element matches the selector
matches(el, sel) ==
    /\ el.tag = parse_selector(sel).tag
    /\ el.id = parse_selector(sel).id
    /\ parse_selector(sel).classes \subseteq el.classes

\* head.query_selector(sel).is_some()
query_selector(sel) == \E k \in 1..Len(head) : matches(head[k], sel)

\* document().create_element("style") with its id and its text content
create_style(id, content) ==
    [tag |-> <<"s", "t", "y", "l", "e">>, id |-> id, classes |-> {}, content |-> content]

\* mount_style without the feature "ssr"
mount_style(id, content) ==
    /\ Len(head) < MaxHead
    /\ head' = IF query_selector(format_selector(format_id(id))) THEN head
               ELSE <<create_style(format_id(id), content)>> \o head
    /\ last_mount' = [id |-> id, content |-> content, head |-> head]

InitHead ==
    /\ head = <<>>
    /\ last_mount = [id |-> <<>>, content |-> "", head |-> <<>>]

(***************************************************************************)
(* mount_style on the server: SSRMountStyleContext                         *)
(***************************************************************************)
SsrKeys == {<<"k">>, <<"i", "d">>}

SsrValues == {<<>>, <<"x">>, <<"y", "z">>}

NoStyles == [k \in {} |-> <<>>]

\* r#"<style id=""></style>"#.len()
TEMPLATE_LEN == Len(<<"<", "s", "t", "y", "l", "e", " ", "i", "d", "=", "\"", "\"", ">", "<", "/", "s", "t", "y", "l", "e", ">">>)

\* format!(r#"<style id="{k}">{v}</style>"#)
format_style(k, v) ==
    <<"<", "s", "t", "y", "l", "e", " ", "i", "d", "=", "\"">> \o k \o <<"\"", ">">> \o v
        \o <<"<", "/", "s", "t", "y", "l", "e", ">">>

\* the sum of a function over a set of keys
RECURSIVE Sum(_, _)
Sum(f, keys) ==
    IF keys = {} THEN 0
    ELSE LET k == CHOOSE x \in keys : TRUE IN f[k] + Sum(f, keys \ {k})

\* SSRMountStyleContext::html_len
html_len(map) == Sum([k \in DOMAIN map |-> Len(k) + Len(map[k]) + TEMPLATE_LEN], DOMAIN map)

\* the orders in which a HashMap may hand out its entries
Orders(map) ==
    {o \in [1..Cardinality(DOMAIN map) -> DOMAIN map] :
        \A i, j \in DOMAIN o : o[i] = o[j] => i = j}

RECURSIVE Collect(_, _, _)
Collect(map, order, i) ==
    IF i > Len(order) THEN <<>>
    ELSE format_style(order[i], map[order[i]]) \o Collect(map, order, i + 1)

\* an insert that keeps the value a key already has
insert_keep_first(map, k, v) ==
    [x \in DOMAIN map \cup {k} |-> IF x \in DOMAIN map THEN map[x] ELSE v]

\* HashMap::insert
insert(map, k, v) == [x \in DOMAIN map \cup {k} |-> IF x = k THEN v ELSE map[x]]

\* SSRMountStyleContext::push_style
push_style(k, v) ==
    /\ styles' = insert(styles, k, v)
    /\ last_ssr' = [op |-> "push_style", k |-> k, v |-> v, styles |-> styles,
                    len |-> html_len(styles)]
    /\ UNCHANGED html

\* SSRMountStyleContext::to_html, the drain handing out the entries in the
\* given order
to_html(order) ==
    /\ html' = Collect(styles, order, 1)
    /\ styles' = NoStyles
    /\ last_ssr' = [op |-> "to_html", k |-> <<>>, v |-> <<>>, styles |-> styles,
                    len |-> html_len(styles)]

InitSsr ==
    /\ styles = NoStyles
    /\ html = <<>>
    /\ last_ssr = [op |-> "none", k |-> <<>>, v |-> <<>>, styles |-> NoStyles, len |-> 0]

(***************************************************************************)
(* Specifications                                                          *)
(***************************************************************************)
InitFrozenPicker ==
    /\ color = [r |-> 0, g |-> 0, b |-> 0, a |-> 255]
    /\ effect_dirty = TRUE
    /\ css = InitialCss

\* the sections that a specification does not exercise stay as constructed
InitLate == InitMulti /\ InitHead /\ InitSsr /\ InitHex

Init == InitPos /\ InitFrozenPicker /\ InitEdit /\ InitPop /\ InitLate

Next ==
    \/ \E e \in StartEvents, rect \in Rects : handle_start(e, rect) /\ UNCHANGED <<pickVars, editVars, popVars, lateVars>>
    \/ \E e \in MouseEvents, rect \in Rects : DocMouseMove(e, rect) /\ UNCHANGED <<pickVars, editVars, popVars, lateVars>>
    \/ \E e \in TouchEvents, rect \in Rects : DocTouchMove(e, rect) /\ UNCHANGED <<pickVars, editVars, popVars, lateVars>>
    \/ DocMouseUp /\ UNCHANGED <<pickVars, editVars, popVars, lateVars>>
    \/ DocTouchEnd /\ UNCHANGED <<pickVars, editVars, popVars, lateVars>>
    \/ Bind /\ UNCHANGED <<pickVars, editVars, popVars, lateVars>>
    \/ Unmount /\ UNCHANGED <<pickVars, editVars, popVars, lateVars>>

\* the position tracker
Spec == Init /\ [][Next]_vars

PickerInit == InitPos /\ InitPicker /\ InitEdit /\ InitPop /\ InitLate

PickerNext ==
    \/ \E c \in Colors : SetColor(c) /\ UNCHANGED <<posVars, editVars, popVars, lateVars>>
    \/ ColorEffect /\ UNCHANGED <<posVars, editVars, popVars, lateVars>>

\* the projections of ColorPicker
PickerSpec == PickerInit /\ [][PickerNext]_vars

EditInit == InitPos /\ InitPicker /\ InitEdit /\ InitPop /\ InitLate

EditNext ==
    \/ ColorEffect /\ UNCHANGED <<posVars, editVars, popVars, lateVars>>
    \/ \E pos \in Positions : SaturationMove(pos) /\ UNCHANGED <<posVars, popVars, lateVars>>
    \/ \E pos \in Positions : HueMove(pos) /\ UNCHANGED <<posVars, popVars, lateVars>>
    \/ \E pos \in Positions : AlphaMove(pos) /\ UNCHANGED <<posVars, popVars, lateVars>>
    \/ \E text \in ColorTexts : HexChange(text) /\ UNCHANGED <<posVars, popVars, lateVars>>
    \/ \E text \in ColorTexts : HexBlur(text) /\ UNCHANGED <<posVars, popVars, lateVars>>
    \/ \E text \in NumTexts : RedChange(text) /\ UNCHANGED <<posVars, popVars, lateVars>>
    \/ \E text \in NumTexts : GreenChange(text) /\ UNCHANGED <<posVars, popVars, lateVars>>
    \/ \E text \in NumTexts : BlueChange(text) /\ UNCHANGED <<posVars, popVars, lateVars>>
    \/ \E text \in NumTexts : AlphaChange(text) /\ UNCHANGED <<posVars, popVars, lateVars>>
    \/ \E text \in ColorTexts : InputChange(text) /\ UNCHANGED <<posVars, popVars, lateVars>>

\* the handlers of ColorPicker and of the text input of ColorInput, for
\* every Color the parent may supply
EditSpec == EditInit /\ [][EditNext]_vars

InputInit == InitPos /\ InitPicker /\ InitEdit /\ InitPop /\ InitLate

InputNext ==
    \/ MountView /\ UNCHANGED <<posVars, pickVars, editVars, lateVars>>
    \/ \E toggle_first \in BOOLEAN : TriggerClick(toggle_first) /\ UNCHANGED <<posVars, pickVars, editVars, lateVars>>
    \/ \E target \in Targets : WindowClick(target) /\ UNCHANGED <<posVars, pickVars, editVars, lateVars>>
    \/ Teardown /\ UNCHANGED <<posVars, pickVars, editVars, lateVars>>
    \/ \E text \in ColorTexts : InputChange(text) /\ UNCHANGED <<posVars, popVars, lateVars>>
    \/ InputCommitShown /\ UNCHANGED <<posVars, popVars, lateVars>>

\* the popover of ColorInput
InputSpec == InputInit /\ [][InputNext]_vars

MultiInit == InitPos /\ InitFrozenPicker /\ InitEdit /\ InitPop /\ InitLate

MultiNext ==
    \/ \E i \in Instances : MultiBind(i) /\ UNCHANGED <<posVars, pickVars, editVars, popVars, headVars, ssrVars, hexVars>>
    \/ \E i \in Instances, e \in StartEvents : MultiStart(i, e) /\ UNCHANGED <<posVars, pickVars, editVars, popVars, headVars, ssrVars, hexVars>>
    \/ \E e \in MouseEvents : MultiMouseMove(e) /\ UNCHANGED <<posVars, pickVars, editVars, popVars, headVars, ssrVars, hexVars>>
    \/ \E e \in TouchEvents : MultiTouchMove(e) /\ UNCHANGED <<posVars, pickVars, editVars, popVars, headVars, ssrVars, hexVars>>
    \/ MultiMouseUp /\ UNCHANGED <<posVars, pickVars, editVars, popVars, headVars, ssrVars, hexVars>>
    \/ MultiTouchEnd /\ UNCHANGED <<posVars, pickVars, editVars, popVars, headVars, ssrVars, hexVars>>

\* the three position trackers of one ColorPicker
MultiSpec == MultiInit /\ [][MultiNext]_vars

ClickInit == InitPos /\ InitPicker /\ InitEdit /\ InitHandler /\ InitLate

ClickNext ==
    \/ \E target \in Targets : HandlerRun(target) /\ UNCHANGED <<posVars, pickVars, editVars, lateVars>>
    \/ \E toggle_first \in BOOLEAN : TriggerClick(toggle_first) /\ UNCHANGED <<posVars, pickVars, editVars, lateVars>>
    \/ \E text \in ColorTexts : InputChange(text) /\ UNCHANGED <<posVars, popVars, lateVars>>

\* the click_outside closure of ColorInput on every input it can be given
ClickSpec == ClickInit /\ [][ClickNext]_vars

HeadInit == InitPos /\ InitFrozenPicker /\ InitEdit /\ InitPop /\ InitLate

HeadNext ==
    \E id \in StyleIds, content \in StyleContents :
        mount_style(id, content) /\ UNCHANGED <<posVars, pickVars, editVars, popVars, multiVars, ssrVars, hexVars>>

\* mount_style in the browser
HeadSpec == HeadInit /\ [][HeadNext]_vars

SsrInit == InitPos /\ InitFrozenPicker /\ InitEdit /\ InitPop /\ InitLate

SsrNext ==
    \/ \E k \in SsrKeys, v \in SsrValues : push_style(k, v) /\ UNCHANGED <<posVars, pickVars, editVars, popVars, multiVars, headVars, hexVars>>
    \/ \E order \in Orders(styles) : to_html(order) /\ UNCHANGED <<posVars, pickVars, editVars, popVars, multiVars, headVars, hexVars>>

\* SSRMountStyleContext
SsrSpec == SsrInit /\ [][SsrNext]_vars

HexInit == InitPos /\ InitHexField /\ InitEdit /\ InitPop /\ InitMulti /\ InitHead /\ InitSsr

HexNext ==
    \/ HexFieldFocus /\ UNCHANGED <<posVars, pickVars, editVars, popVars, multiVars, headVars, ssrVars>>
    \/ \E text \in TypedTexts : HexFieldType(text) /\ UNCHANGED <<posVars, pickVars, editVars, popVars, multiVars, headVars, ssrVars>>
    \/ HexFieldEnter /\ UNCHANGED <<posVars, pickVars, editVars, popVars, multiVars, headVars, ssrVars>>
    \/ HexFieldBlur /\ UNCHANGED <<posVars, pickVars, editVars, popVars, multiVars, headVars, ssrVars>>

\* the hex field of ColorPicker with its change and blur events
HexSpec == HexInit /\ [][HexNext]_vars

(***************************************************************************)
(* Properties of use_position                                              *)
(***************************************************************************)
Ends == {"mouseup", "touchend"}

Moves == {"mousemove", "touchmove"}

AllListeners == [t \in EventTypes |-> 1]

\* the latest start or move event called on_move
Emitted == calls > last_in.calls

\* the latest start or move event carried client coordinates and found the
\* surface bound
WellFormed(in) ==
    /\ in.bound
    /\ in.e.class = "MouseEvent" \/ (in.e.class = "TouchEvent" /\ in.e.pt # NoTouch)

InUnit(v) == v.d > 0 /\ 0 <= v.n /\ v.n <= v.d

\* C1: every position passed to on_move has x and y within [0, 1], for
\* pointers inside or outside the rectangle and for rectangles of zero
\* width or height
C1_Clamped == calls > 0 => InUnit(last_pos.x) /\ InUnit(last_pos.y)

\* on_move was called for a pointer left of a rectangle of zero width
C1_Witness ==
    /\ Emitted
    /\ last_in.rect.width = 0
    /\ last_in.e.pt[1] < last_in.rect.left
    /\ last_pos.x = Zero

\* clamp(v, lo, hi) by comparisons: a NaN compares false and is returned
clamp(v, lo, hi) == IF FLess(v, lo) THEN lo ELSE IF FLess(hi, v) THEN hi ELSE v

ClampX(in) == clamp(FDiv(in.e.pt[1] - in.rect.left, in.rect.width), Zero, One)

ClampY(in) == clamp(FDiv(in.e.pt[2] - in.rect.top, in.rect.height), Zero, One)

IsScenario(in) ==
    /\ in.rect = ScenarioRect
    /\ in.e = [class |-> "MouseEvent", pt |-> ScenarioPoint]

\* C2 as stated: the emitted position is x = clamp((clientX - left) / width,
\* 0, 1) and y = clamp((clientY - top) / height, 0, 1) for every rectangle
C2_AsStated ==
    Emitted => /\ last_pos.x = ClampX(last_in)
               /\ last_pos.y = ClampY(last_in)

\* C2: the emitted position is x = clamp((clientX - left) / width, 0, 1) and
\* y = clamp((clientY - top) / height, 0, 1), except that an axis whose
\* quotient is 0 / 0 (zero extent, pointer on the origin) emits 1; the
\* scenario rectangle with a pointer-down at (100, 50) emits (0.5, 0.5)
C2_PositionFormula ==
    Emitted =>
        /\ last_pos.x = IF IsNaN(ClampX(last_in)) THEN One ELSE ClampX(last_in)
        /\ last_pos.y = IF IsNaN(ClampY(last_in)) THEN One ELSE ClampY(last_in)
        /\ IsScenario(last_in) => last_pos = Some(F64(1, 2), F64(1, 2))

\* the pointer-down of the scenario has called on_move
C2_Witness ==
    /\ Emitted
    /\ IsScenario(last_in)
    /\ recent[2] = "start"

\* C3: a start event immediately followed by an end event calls on_move
\* exactly once, with the position of the start event, and the session is
\* active between the two events
C3_ZeroMoveDrag ==
    /\ (recent[2] = "start" => dragging /\ listeners = AllListeners)
    /\ (recent[1] = "start" /\ recent[2] \in Ends /\ WellFormed(last_in)) =>
           /\ calls = last_in.calls + 1
           /\ last_pos = get_position(TRUE, last_in.e, last_in.rect)

\* a touchstart with a touch point was followed by mouseup
C3_Witness ==
    /\ recent = <<"start", "mouseup">>
    /\ WellFormed(last_in)
    /\ last_in.e.class = "TouchEvent"
    /\ calls = 1
    /\ ~dragging

\* C4: after an end event the session is inactive and no document listener
\* remains; whenever no drag is active the tracker holds no document listener
C4_NoListenersWhenIdle ==
    /\ (recent[2] \in Ends => ~dragging)
    /\ (~dragging => listeners = NoListeners)

\* a drag with a move was ended by touchend
C4_Witness ==
    /\ recent = <<"mousemove", "touchend">>
    /\ Emitted
    /\ ~dragging
    /\ listeners = NoListeners

\* C5: at most one set of the four document listeners is installed, and one
\* document move event calls on_move at most once
C5_SingleListenerSet ==
    /\ \A t \in EventTypes : listeners[t] <= 1
    /\ calls <= last_in.calls + 1

\* a start event arrived while a drag was active
C5_Witness ==
    /\ recent = <<"start", "start">>
    /\ dragging
    /\ listeners = AllListeners

\* C6: at unmount the session is deactivated and the document listeners are
\* removed, and no on_move call happens after the unmount
C6_UnmountCancels ==
    [][/\ ~mounted' => ~dragging' /\ listeners' = NoListeners
       /\ ~mounted => UNCHANGED <<calls, last_pos>>]_vars

\* the widget was unmounted during a drag and a well-formed document
\* mousemove followed
C6_Witness ==
    /\ recent = <<"unmount-mid-drag", "mousemove">>
    /\ last_in.e.class = "MouseEvent"
    /\ ~mounted
    /\ ~Emitted

\* C7: an end event that follows an end event changes nothing in the tracker
C7_EndIdempotent ==
    [][(recent[2] \in Ends /\ (DocMouseUp \/ DocTouchEnd)) =>
           UNCHANGED <<mounted, ref_div, dragging, listeners, calls, last_pos>>]_vars

\* mouseup was followed by touchend
C7_Witness ==
    /\ recent = <<"mouseup", "touchend">>
    /\ ~dragging
    /\ listeners = NoListeners
    /\ calls > 0

MalformedStep ==
    /\ \/ handle_start(last_in'.e, last_in'.rect)
       \/ \E t \in Moves : handle_move(t, last_in'.e, last_in'.rect)
    /\ ~get_position(ref_div, last_in'.e, last_in'.rect).some

\* C9: a start or move event with an unbound surface or without a touch
\* point causes no on_move call and leaves the tracker as it was, so that
\* later events are handled as if it had not occurred
C9_MalformedIgnored ==
    [][MalformedStep =>
           UNCHANGED <<mounted, ref_div, dragging, listeners, calls, last_pos>>]_vars

HueWithin(n) ==
    /\ n * hue_deg(color).den <= hue_deg(color).num
    /\ hue_deg(color).num < (n + 1) * hue_deg(color).den

\* C18: once the Effect has run, the hue projection is the HSL hue in
\* degrees rounded to the nearest integer
C18_AsStated ==
    ~effect_dirty =>
        \/ HueWithin(css.hue) /\ 2 * hue_deg(color).num < (2 * css.hue + 1) * hue_deg(color).den
        \/ HueWithin(css.hue - 1) /\ 2 * hue_deg(color).num >= (2 * css.hue - 1) * hue_deg(color).den

\* C18, amended: once the Effect has run, the hue projection is the HSL hue
\* in degrees with its fraction cut off
C18_HueTruncated == ~effect_dirty => HueWithin(css.hue)

\* the Effect has run for the Color (255, 127, 0), whose hue is 29.88 degrees
C18_Witness ==
    /\ ~effect_dirty
    /\ color.r = 255 /\ color.g = 127 /\ color.b = 0
    /\ css.hue = 29

\* C19: once the Effect has run, the hex field shows exactly six hexadecimal
\* digits, without "#" and without alpha digits, for every Color
C19_SixHexDigits ==
    ~effect_dirty =>
        /\ Len(hex_field_value) = 6
        /\ \A i \in 1..Len(hex_field_value) : IsHexDigit(hex_field_value[i])

(***************************************************************************)
(* Properties of the handlers of ColorPicker                               *)
(***************************************************************************)
\* the latest handler that ran belongs to field f
Edited(f) == last_edit.field = f

HexFields == {"hex", "hex-blur"}

ColorFields == {"hex", "hex-blur", "input"}

NumFields == {"red", "green", "blue", "alpha"}

left == last_edit.pos[1]

top == last_edit.pos[2]

alpha_f32 == F64(color.a, 255)

\* C11: a position (left, top) in the saturation area gives on_change the
\* HSV Color with s = max(left, 0.001) and v = max(1 - top, 0.001), hue and
\* alpha as they were
C11_AsStated ==
    Edited("saturation") =>
        out = <<ColorVal("hsva", hue_f32(color), FMax(left, Floor001),
                         FMax(OneMinus(top), Floor001), alpha_f32)>>

\* C11, amended: s is left when left > 0 and 0.001 otherwise, v is 1 - top
\* when 1 - top > 0 and 0.001 otherwise, hue and alpha as they were; a value
\* between 0 and 0.001 is passed on as it is
C11_FloorAtZero ==
    Edited("saturation") =>
        /\ Len(out) = 1
        /\ out[1].space = "hsva"
        /\ out[1].c1 = hue_f32(color)
        /\ out[1].c2 = (IF FLess(Zero, left) THEN left ELSE Floor001)
        /\ out[1].c3 = (IF FLess(top, One) THEN OneMinus(top) ELSE Floor001)
        /\ out[1].a = alpha_f32

\* the pointer is at the bottom of the area, 0.0005 from its left edge: the
\* value is floored and the saturation is not
C11_Witness ==
    /\ Edited("saturation")
    /\ left = F64(1, 2000)
    /\ top = One
    /\ Len(out) = 1
    /\ out[1].c2 = F64(1, 2000)
    /\ out[1].c3 = Floor001

\* the six digits of the committed text are the channels of the Color
SixDigits(text) == Len(text) = 6 /\ \A i \in 1..6 : IsHexDigit(text[i])

\* C12: a commit of six hexadecimal digits in the hex field gives on_change
\* the RGB of the text with the alpha of the current Color
C12_HexKeepsAlpha ==
    (last_edit.field \in HexFields /\ SixDigits(last_edit.text)) =>
        out = <<ColorVal("rgba",
                         F64(HexByte(last_edit.text[1], last_edit.text[2]), 255),
                         F64(HexByte(last_edit.text[3], last_edit.text[4]), 255),
                         F64(HexByte(last_edit.text[5], last_edit.text[6]), 255),
                         alpha_f32)>>

\* the latest handler is that of a colour text field and its text is no
\* colour
Unparsable == last_edit.field \in ColorFields /\ ~parse_color(last_edit.text).ok

\* C13: a commit of a text that is no colour, in the hex field of
\* ColorPicker or in the text input of ColorInput, does not call on_change
\* and leaves the Color and its projections as they were
C13_InvalidTextIgnored ==
    /\ [](Unparsable => out = <<>> /\ ~panicked)
    /\ [][(color' = color /\ css' = css) \/ ~(effect_dirty' = effect_dirty /\ Unparsable')]_vars

\* "zzzzzz" was committed in the text input after the Effect had run
C13_Witness ==
    /\ Edited("input")
    /\ last_edit.text = <<"z", "z", "z", "z", "z", "z">>
    /\ out = <<>>
    /\ ~effect_dirty
    /\ css = Projections(color)

\* C14: a commit of a text that is no unsigned byte, in any of the four
\* numeric fields, does nothing and returns normally
C14_InvalidByteIgnored ==
    (last_edit.field \in NumFields /\ ~parse_u8(last_edit.text).ok) =>
        out = <<>> /\ ~panicked

\* the channel of the Color that a numeric field leaves alone, or the byte
\* that it sets
Expected(f, byte, old) == IF Edited(f) THEN F64(byte, 255) ELSE F64(old, 255)

\* C15: a commit of a byte v in a numeric field calls on_change once, with
\* the channel of the field at v / 255 and the other three channels as they
\* were; the current Color is not changed
C15_ChannelEdit ==
    /\ []((last_edit.field \in NumFields /\ parse_u8(last_edit.text).ok) =>
            LET v == parse_u8(last_edit.text).val
            IN /\ ~panicked
               /\ out = <<ColorVal("rgba", Expected("red", v, color.r),
                                   Expected("green", v, color.g),
                                   Expected("blue", v, color.b),
                                   Expected("alpha", v, color.a))>>)
    /\ [][color' = color]_vars

\* "0" was committed in the green field of a Color whose green is not 0
C15_Witness ==
    /\ Edited("green")
    /\ last_edit.text = <<"0">>
    /\ color.g = 127
    /\ Len(out) = 1
    /\ out[1].c2 = Zero
    /\ out[1].c1 = F64(color.r, 255)

\* C16: a position on the hue slider gives on_change the HSL Color with hue
\* left * 360 and the saturation, lightness and alpha of the current Color,
\* whatever the vertical coordinate
C16_HueEdit ==
    Edited("hue") =>
        out = <<ColorVal("hsla", F64(360 * left.n, left.d), hsl_s(color), hsl_l(color),
                         alpha_f32)>>

\* the pointer is in the middle of the hue slider and at its lower edge
C16_Witness ==
    /\ Edited("hue")
    /\ left = F64(1, 2)
    /\ top = One
    /\ Len(out) = 1
    /\ out[1].c1 = F64(180, 1)

\* C17: a position on the alpha slider gives on_change the current Color
\* with alpha = left and r, g, b as they were, whatever the vertical
\* coordinate
C17_AlphaEdit ==
    Edited("alpha-slider") =>
        out = <<ColorVal("rgba", F64(color.r, 255), F64(color.g, 255), F64(color.b, 255),
                         left)>>

\* the pointer is in the middle of the alpha slider of an opaque Color
C17_Witness ==
    /\ Edited("alpha-slider")
    /\ left = F64(1, 2)
    /\ top = Zero
    /\ color.a = 255
    /\ Len(out) = 1
    /\ out[1].a = F64(1, 2)

(***************************************************************************)
(* Properties of ColorInput                                                *)
(***************************************************************************)
\* the step is the click or the teardown that last_click records
Clicked(ev) == last_click' # last_click /\ last_click'.ev = ev

\* C20: the popover starts closed; a click on the text input toggles it, a
\* click outside closes it when it is open, the teardown closes it and
\* removes the window listener, and no other event changes it
C20_Popover ==
    /\ ~open
    /\ [][IF Clicked("trigger") THEN open' = ~open
          ELSE IF Clicked("outside") /\ open THEN ~open'
          ELSE IF Clicked("teardown") THEN ~open' /\ ~click_outside'
          ELSE open' = open]_vars

\* a click outside has closed the open popover
C20_Witness ==
    /\ last_click = [ev |-> "outside", open |-> TRUE]
    /\ ~open
    /\ click_outside

(***************************************************************************)
(* Properties of the three position trackers of ColorPicker                *)
(***************************************************************************)
Dragging == {i \in Instances : trackers[i].dragging}

Listening == {i \in Instances : trackers[i].listeners # NoListeners}

\* C21: with the three use_position instances mounted, at most one has an
\* active drag and document listeners installed, and a document move event
\* calls the on_move of at most one instance, also when a second touchstart
\* lands on another slider during a touch drag
C21_SingleActiveDrag ==
    /\ Cardinality(Dragging) <= 1
    /\ Cardinality(Listening) <= 1
    /\ multi_ev \in {"mousemove", "touchmove"} => Cardinality(moved) <= 1

(***************************************************************************)
(* Properties of the click_outside closure of ColorInput                   *)
(***************************************************************************)
\* the step is a run of the window listener alone for a click on target
RanOn(target) == last_click' # last_click /\ last_click'.ev = handler_ev(target)

\* the popover is open, the target is a node and neither filled reference
\* contains it
OutsideBoth(target) ==
    /\ open
    /\ target # "nonnode"
    /\ ~(reference_ref /\ target = "trigger")
    /\ ~(floating_ref /\ target = "popover")

\* C22: the click-outside handler closes the popover if and only if it is
\* open, the target is a node and neither the trigger nor the popover
\* contains it, an empty reference containing nothing; a click on the
\* trigger while closed ends in open, and a click inside the popover while
\* open leaves it open
C22_ClickOutside ==
    [][/\ \A target \in Targets :
              RanOn(target) => /\ (open /\ ~open') <=> OutsideBoth(target)
                               /\ ~open => ~open'
       /\ (Clicked("trigger") /\ ~open) => open']_vars

\* the open popover was closed by a click on a node while the trigger
\* reference was empty
C22_Witness ==
    /\ last_click = [ev |-> "window:trigger", open |-> TRUE]
    /\ ~reference_ref
    /\ ~open

(***************************************************************************)
(* Properties of mount_style                                               *)
(***************************************************************************)
\* number of style elements of the head with the id of a mount_style id
Count(id) == Cardinality({k \in 1..Len(head) : head[k].id = format_id(id)})

\* the id of the latest call was in the head before the call
WasPresent ==
    \E k \in 1..Len(last_mount.head) : last_mount.head[k].id = format_id(last_mount.id)

\* C23: after any sequence of mount_style calls the head holds exactly one
\* style element with id "leptos-color-id-<id>" for each id that was
\* mounted; a call with an id already present adds no element and leaves
\* the element as it is
C23_OneStylePerId ==
    /\ \A id \in StyleIds : Count(id) <= 1
    /\ last_mount.id # <<>> => Count(last_mount.id) = 1
    /\ (last_mount.id # <<>> /\ WasPresent) => head = last_mount.head

\* number of places at which sub occurs in text
Occurs(sub, text) ==
    Cardinality({i \in 1..(Len(text) - Len(sub) + 1) : SubSeq(text, i, i + Len(sub) - 1) = sub})

\* <style id="k"
OpenTag(k) == <<"<", "s", "t", "y", "l", "e", " ", "i", "d", "=", "\"">> \o k \o <<"\"">>

\* <style id="k">v</style>
Element(k, v) == OpenTag(k) \o <<">">> \o v \o <<"<", "/", "s", "t", "y", "l", "e", ">">>

\* C26: push_style keeps for each key the content of its last push; to_html
\* emits exactly one <style id="k">v</style> for each key of the context
\* and nothing else, html_len before it is the length of what it emits, and
\* it leaves the context empty
C26_SsrStyles ==
    /\ last_ssr.op = "push_style" =>
           /\ DOMAIN styles = DOMAIN last_ssr.styles \cup {last_ssr.k}
           /\ styles[last_ssr.k] = last_ssr.v
           /\ \A x \in DOMAIN last_ssr.styles \ {last_ssr.k} : styles[x] = last_ssr.styles[x]
    /\ last_ssr.op = "to_html" =>
           /\ \A k \in DOMAIN last_ssr.styles :
                  /\ Occurs(Element(k, last_ssr.styles[k]), html) = 1
                  /\ Occurs(OpenTag(k), html) = 1
           /\ \A k \in SsrKeys \ DOMAIN last_ssr.styles : Occurs(OpenTag(k), html) = 0
           /\ Len(html) = last_ssr.len
           /\ styles = NoStyles

\* to_html has emitted the styles of two keys
C26_Witness ==
    /\ last_ssr.op = "to_html"
    /\ DOMAIN last_ssr.styles = SsrKeys
    /\ last_ssr.styles[<<"k">>] = <<"y", "z">>
    /\ Len(html) = 2 * TEMPLATE_LEN + 5 + Len(last_ssr.styles[<<"i", "d">>])
    /\ styles = NoStyles

(***************************************************************************)
(* Properties of the text fields                                           *)
(***************************************************************************)
\* C24: the hex field never makes more on_change calls than it has fired
\* change events: a valid edit followed by the loss of the focus emits once
\* and a blur without an edit emits nothing
C24_EmitsWithinEdits == hex_emits <= hex_changes

\* Color::to_rgba8 of a channel
to_byte(v) == RoundDiv(v.n * 255, v.d)

\* C25: a commit of the text input of ColorInput with the text it displays
\* emits a Color whose four bytes are those of the current Color
C25_DisplayRoundTrip ==
    (Edited("input") /\ last_edit.text = input_value(color)) =>
        /\ Len(out) = 1
        /\ <<to_byte(out[1].c1), to_byte(out[1].c2), to_byte(out[1].c3), to_byte(out[1].a)>>
               = to_rgba8(color)

====
